---- MODULE Spec2Model ----
(***************************************************************************)
(* WhatsApp multi-media message aggregation and dispatch.                  *)
(*                                                                         *)
(* Webhook invocations (webhook-handler/handler.py) call                   *)
(* MessageAggregator.aggregate_message (webhook-handler/                   *)
(* message_aggregator.py), which coordinates through rows of the table     *)
(* whatsapp_message_groups; a scheduled invocation (stale-message-         *)
(* processor/handler.py) calls process_stale_messages and                  *)
(* cleanup_expired_groups.  Every storage call and every sns.publish is    *)
(* one atomic step; the invocations interleave freely and time passes      *)
(* between any two steps.                                                  *)
(***************************************************************************)
EXTENDS Integers, Sequences, FiniteSets, TLC

---------------------------------------------------------------------------
(* Bounds of the model *)

MaxFrags == 3
MaxTime == 12
MaxNumMedia == 4
MaxFaults == 1

(* Program constants *)

time_window == 10
RELEASE_COUNT == 2
MAX_WAIT == 3
MAX_FRAGMENTS == 3
MAX_MEDIA == 3
max_age_seconds == 10
max_age_minutes == 5

---------------------------------------------------------------------------

Frags == 1..MaxFrags
Phones == {"p1"}
ClientTypes == {"whatsapp", "webapp"}
NumMediaChoices == {0, 1, MaxNumMedia}

None == "None"
NoKey == <<None, -1>>
NoFrag == [client_type |-> None, phone_number |-> None, num_media |-> 0]
NoItem == [phone_number |-> None, messages |-> <<>>, message_count |-> 0,
           created_at |-> -1]
NoMessage == [kind |-> None, messages |-> <<>>, group_key |-> NoKey]

VARIABLES
    now,            \* the clock, in seconds
    store,          \* whatsapp_message_groups: the rows, by group_key
    frag,           \* the UnifiedMessage parsed by each webhook invocation
    twilio_message_sid, \* the MessageSid each webhook invocation carried
    pc,             \* position of each webhook invocation
    group_key,      \* aggregate_message: group_key
    item,           \* aggregate_message: response.data[0]
    message_to_send,
    is_aggregated_final_message,
    outcome,        \* what aggregate_message did: HELD, RELEASED, RAISED, ...
    err,            \* the storage call of the invocation that failed
    decode_error,   \* the exception raised while decoding the webhook body
    published,      \* result of the invocation's sns.publish
    response,       \* the webhook response returned
    spc,            \* position of the stale-message processor
    queried,        \* process_stale_messages: the keys of response.data
    removed,        \* the keys whose row this run's deletes have removed
    response_data,  \* process_stale_messages: rows still to iterate
    stale_messages, \* merged messages collected / still to publish
    sweep_sent,     \* messages the stale processor's sns.publish accepted
    processed_count,
    failed_count,
    sweep_result,   \* body of the stale processor's last response
    message_ids,    \* the message_id attribute of each sns.publish call so far
    faults,         \* storage calls and publishes that have failed so far
    merge_args,     \* _merge_messages: the list object passed as messages
    merge_out,      \* _merge_messages: what the calls on it have returned
    key_args,       \* the group key computation: the calls to make
    key_out         \* the group key computation: the keys computed so far

ingestVars == <<frag, twilio_message_sid, pc, group_key, item, message_to_send,
                is_aggregated_final_message, outcome, err, published, response,
                decode_error>>
sweepVars == <<spc, queried, removed, response_data, stale_messages, sweep_sent,
               processed_count, failed_count, sweep_result>>
mergeVars == <<merge_args, merge_out>>
keyVars == <<key_args, key_out>>
pureVars == <<mergeVars, keyVars>>
vars == <<now, store, frag, twilio_message_sid, pc, group_key, item, message_to_send,
          is_aggregated_final_message, outcome, err, published, response,
          decode_error,
          spc, queried, removed, response_data, stale_messages, sweep_sent,
          processed_count, failed_count, sweep_result, message_ids, faults,
          merge_args, merge_out, key_args, key_out>>

---------------------------------------------------------------------------
(* Pure helpers *)

\* group_timestamp = current_time - (current_time % time_window)
GroupTimestamp(t) == t - (t % time_window)

\* group_key = f"{phone_number}#{group_timestamp}"
GroupKey(phone, t) == <<phone, GroupTimestamp(t)>>

Keys == {<<p, b>> : p \in Phones, b \in {GroupTimestamp(t) : t \in 0..MaxTime}}

\* The media_items of one parsed message: item i of fragment f is <<f, i>>.
MediaItems(f, n) == [i \in 1..n |-> <<f, i>>]

RECURSIVE AllMedia(_, _)
\* all_media_items.extend(msg.get('media_items', [])) over the list
AllMedia(messages, fr) ==
    IF messages = <<>> THEN <<>>
    ELSE MediaItems(Head(messages), fr[Head(messages)].num_media)
            \o AllMedia(Tail(messages), fr)

Truncate(s, n) == IF Len(s) <= n THEN s ELSE SubSeq(s, 1, n)

\* _merge_messages: the first message as base, the media of all, cut to 3
\* (group_key is not a field of the merged dict; it records the row read)
MergeMessages(messages, k) ==
    [kind |-> "merged", messages |-> messages, group_key |-> k]

\* The message dicts _merge_messages works on: message_id stands for the
\* fields the merge copies, text_body is a string (a sequence of characters).
Texts == {<<>>, <<"a">>, <<"b">>}

\* The dict of the message at place j of a list (uuid4 ids are all distinct).
Dict(j, text, n) ==
    [message_id |-> j, text_body |-> text, media_items |-> MediaItems(j, n)]

\* {}
EmptyDict == [message_id |-> 0, text_body |-> <<>>, media_items |-> <<>>]

RECURSIVE Extend(_)
\* for msg in messages: all_media_items.extend(msg.get('media_items', []))
Extend(messages) ==
    IF messages = <<>> THEN <<>>
    ELSE Head(messages).media_items \o Extend(Tail(messages))

IsTruthy(text) == text # <<>>

\* [msg.get('text_body', '') for msg in messages if msg.get('text_body')]
TextBodies(messages) ==
    LET kept == SelectSeq(messages, LAMBDA msg : IsTruthy(msg.text_body))
    IN [i \in 1..Len(kept) |-> kept[i].text_body]

Separator == <<" ", "|", " ">>

RECURSIVE Join(_)
\* ' | '.join(text_bodies)
Join(text_bodies) ==
    IF text_bodies = <<>> THEN <<>>
    ELSE IF Len(text_bodies) = 1 THEN Head(text_bodies)
    ELSE Head(text_bodies) \o Separator \o Join(Tail(text_bodies))

\* A faulty variant of MergeDicts: the media list is not cut.
MergeDictsUncut(messages) ==
    IF messages = <<>> THEN EmptyDict
    ELSE LET merged == [Head(messages) EXCEPT
                            !.media_items = Extend(messages)]
         IN IF TextBodies(messages) # <<>>
            THEN [merged EXCEPT !.text_body = Join(TextBodies(messages))]
            ELSE merged

\* _merge_messages on message dicts
MergeDicts(messages) ==
    IF messages = <<>> THEN EmptyDict
    ELSE LET merged == [Head(messages) EXCEPT
                            !.media_items = Truncate(Extend(messages), MAX_MEDIA)]
         IN IF TextBodies(messages) # <<>>
            THEN [merged EXCEPT !.text_body = Join(TextBodies(messages))]
            ELSE merged

\* A faulty variant of AfterMerge: merged = messages[0] without the copy, so
\* the call writes the merged fields into the first dict of the list.
AfterMergeNoCopy(messages) ==
    IF messages = <<>> THEN messages
    ELSE [messages EXCEPT ![1] = MergeDicts(messages)]

\* A faulty variant of AfterMerge: all_media_items is the first message's
\* own media list, which the loop then extends.
AfterMergeExtendsFirst(messages) ==
    IF messages = <<>> THEN messages
    ELSE [messages EXCEPT ![1].media_items = Extend(messages)]

\* The list object as a call of _merge_messages leaves it: the base is a
\* copy of messages[0] and the media list is a new list.
AfterMerge(messages) == messages

\* unified_message.to_dict()
ToDict(f) == [kind |-> "single", messages |-> <<f>>, group_key |-> NoKey]

\* The media_items a message handed to sns.publish carries.
MediaOf(m, fr) ==
    IF m.kind = "merged"
    THEN Truncate(AllMedia(m.messages, fr), MAX_MEDIA)
    ELSE AllMedia(m.messages, fr)

\* A faulty variant of should_aggregate: the media test is dropped.
ShouldAggregateAnyWhatsapp(u) == u.client_type = "whatsapp"

\* should_aggregate
ShouldAggregate(u) == u.client_type = "whatsapp" /\ u.num_media > 0

\* len(messages) >= 2 or time_elapsed > 3
ShouldProcess(messages, time_elapsed) ==
    Len(messages) >= RELEASE_COUNT \/ time_elapsed > MAX_WAIT

\* ResponseFactory.create_success_response(client_type, message, ...)
SuccessResponse(client_type, message) ==
    IF client_type = "whatsapp"
    THEN [statusCode |-> 200,
          body |-> IF message = None THEN "twiml:analyzing" ELSE message]
    ELSE [statusCode |-> 200, body |-> message]

EmptyResponse == [statusCode |-> 200, body |-> ""]

NoResponse == [statusCode |-> 0, body |-> None]

NoResult == [processed |-> 0, failed |-> 0, message |-> None]

\* A faulty variant of Exists: the insert never meets a duplicate key.
ExistsNever(k) == FALSE

\* The table: a row exists for the keys of DOMAIN store.
Exists(k) == k \in DOMAIN store
InsertRow(st, k, row) == [x \in DOMAIN st \cup {k} |-> IF x = k THEN row ELSE st[x]]

\* A faulty variant of DeleteRow: the filter is the phone number of the key.
DeleteRowsOfPhone(st, k) == [x \in {y \in DOMAIN st : y[1] # k[1]} |-> st[x]]

\* .delete().eq('group_key', group_key)
DeleteRow(st, k) == [x \in DOMAIN st \ {k} |-> st[x]]

SeqToSet(s) == {s[i] : i \in 1..Len(s)}

Perms(S) == {s \in [1..Cardinality(S) -> S] : SeqToSet(s) = S}

---------------------------------------------------------------------------

InitProgram ==
    /\ now = 0
    /\ store = <<>>
    /\ frag = [f \in Frags |-> NoFrag]
    /\ twilio_message_sid = [f \in Frags |-> 0]
    /\ pc = [f \in Frags |-> "new"]
    /\ group_key = [f \in Frags |-> NoKey]
    /\ item = [f \in Frags |-> NoItem]
    /\ message_to_send = [f \in Frags |-> NoMessage]
    /\ is_aggregated_final_message = [f \in Frags |-> FALSE]
    /\ outcome = [f \in Frags |-> None]
    /\ err = [f \in Frags |-> None]
    /\ decode_error = [f \in Frags |-> None]
    /\ published = [f \in Frags |-> None]
    /\ response = [f \in Frags |-> NoResponse]
    /\ spc = "idle"
    /\ queried = {}
    /\ removed = {}
    /\ response_data = <<>>
    /\ stale_messages = <<>>
    /\ sweep_sent = <<>>
    /\ processed_count = 0
    /\ failed_count = 0
    /\ sweep_result = NoResult
    /\ message_ids = <<>>
    /\ faults = 0

Init ==
    /\ InitProgram
    /\ merge_args = <<>>
    /\ merge_out = <<>>
    /\ key_args = <<>>
    /\ key_out = <<>>

---------------------------------------------------------------------------
(* The webhook invocation of fragment f: lambda_handler + aggregate_message *)

\* A faulty variant of Row: the list is stored without its last message.
RowWithoutLast(phone, messages, created) ==
    [phone_number |-> phone,
     messages |-> SubSeq(messages, 1, Len(messages) - 1),
     message_count |-> Len(messages), created_at |-> created]

\* The columns of a row that the code reads back (last_updated_at is written
\* and never read).
Row(phone, messages, created) ==
    [phone_number |-> phone, messages |-> messages,
     message_count |-> Len(messages), created_at |-> created]

\* A faulty variant of Updated: the update leaves message_count as it is.
UpdatedWithoutCount(row, messages) ==
    [row EXCEPT !.messages = messages]

\* A faulty variant of Updated: the update also writes created_at.
UpdatedWithCreatedAt(row, messages) ==
    Row(row.phone_number, messages, now)

\* message_aggregator.py 117-124: the row after the update, which writes
\* messages, message_count and last_updated_at.
Updated(row, messages) ==
    [row EXCEPT !.messages = messages, !.message_count = Len(messages)]

\* A faulty variant of Raised: the exception reaches the outer handler and
\* nothing is published.
RaisedUnhandled(f, call) ==
    /\ err' = [err EXCEPT ![f] = call]
    /\ outcome' = [outcome EXCEPT ![f] = "RAISED"]
    /\ UNCHANGED <<message_to_send, is_aggregated_final_message>>
    /\ pc' = [pc EXCEPT ![f] = "done"]

\* handler.py 129-132: aggregate_message raised; the handler processes the
\* current message immediately, as a message that is not an aggregated final.
Raised(f, call) ==
    /\ err' = [err EXCEPT ![f] = call]
    /\ outcome' = [outcome EXCEPT ![f] = "RAISED"]
    /\ message_to_send' = [message_to_send EXCEPT ![f] = ToDict(f)]
    /\ is_aggregated_final_message' =
            [is_aggregated_final_message EXCEPT ![f] = FALSE]
    /\ pc' = [pc EXCEPT ![f] = "publish"]

\* A faulty variant of ProcessNow: the message is not treated as the final
\* message of a group.
ProcessNowNotFinal(f, how, message) ==
    /\ outcome' = [outcome EXCEPT ![f] = how]
    /\ message_to_send' = [message_to_send EXCEPT ![f] = message]
    /\ is_aggregated_final_message' =
            [is_aggregated_final_message EXCEPT ![f] = FALSE]
    /\ pc' = [pc EXCEPT ![f] = "publish"]

\* handler.py 120-123: aggregate_message returned should_process_now = True
ProcessNow(f, how, message) ==
    /\ outcome' = [outcome EXCEPT ![f] = how]
    /\ message_to_send' = [message_to_send EXCEPT ![f] = message]
    /\ is_aggregated_final_message' =
            [is_aggregated_final_message EXCEPT ![f] = TRUE]
    /\ pc' = [pc EXCEPT ![f] = "publish"]

\* A faulty variant of Held: the held message goes on to sns.publish.
HeldDispatches(f, client_type, should_send_message) ==
    /\ outcome' = [outcome EXCEPT ![f] =
                      IF should_send_message THEN "HELD_FIRST" ELSE "HELD"]
    /\ UNCHANGED response
    /\ pc' = [pc EXCEPT ![f] = "publish"]

\* handler.py 103-118: should_process_now = False; the webhook answers now
Held(f, client_type, should_send_message) ==
    /\ outcome' = [outcome EXCEPT ![f] =
                      IF should_send_message THEN "HELD_FIRST" ELSE "HELD"]
    /\ response' = [response EXCEPT ![f] =
                      IF should_send_message
                      THEN SuccessResponse(client_type, None)
                      ELSE EmptyResponse]
    /\ pc' = [pc EXCEPT ![f] = "done"]

\* What a webhook can carry: the channel and the number of media items.
Inbound ==
    {u \in [client_type : ClientTypes, phone_number : Phones,
            num_media : NumMediaChoices] :
        u.client_type = "whatsapp" \/ u.num_media = 1}

\* handler.py 67-101, 124-127 and message_aggregator.py 75-99: parse, route
\* on should_aggregate, compute the key and attempt the conditional insert;
\* a duplicate key sends the call to the read-append-update path.
\* Invocations are numbered in their order of arrival; u is the message
\* parsed and sid its MessageSid.
Webhook(f, u, sid) ==
    /\ UNCHANGED faults
    /\ pc[f] = "new"
    /\ \A g \in Frags : g < f => pc[g] # "new"
    /\   /\ frag' = [frag EXCEPT ![f] = u]
         /\ twilio_message_sid' = [twilio_message_sid EXCEPT ![f] = sid]
         /\ IF ~ShouldAggregate(u)
            THEN /\ pc' = [pc EXCEPT ![f] = "publish"]
                 /\ outcome' = [outcome EXCEPT ![f] = "BYPASS"]
                 /\ message_to_send' =
                       [message_to_send EXCEPT ![f] = ToDict(f)]
                 /\ UNCHANGED <<store, group_key, response>>
            ELSE LET k == GroupKey(u.phone_number, now)
                 IN /\ group_key' = [group_key EXCEPT ![f] = k]
                    /\ IF ~Exists(k)
                       THEN /\ store' = InsertRow(store, k,
                                           Row(u.phone_number, <<f>>, now))
                            /\ Held(f, u.client_type, TRUE)
                       ELSE /\ pc' = [pc EXCEPT ![f] = "select"]
                            /\ UNCHANGED <<store, outcome, response>>
                    /\ UNCHANGED message_to_send
    /\ UNCHANGED <<now, item, is_aggregated_final_message, err, published>>
    /\ UNCHANGED sweepVars
    /\ UNCHANGED message_ids
    /\ UNCHANGED pureVars
    /\ UNCHANGED decode_error

\* A webhook with a MessageSid of its own (every message Twilio accepts gets
\* a new one).
Receive(f) == \E u \in Inbound : Webhook(f, u, f)

\* Twilio delivers the webhook of an earlier invocation g once more: the
\* same parameters, the same MessageSid.
Redelivery(f) ==
    \E g \in Frags :
        /\ g < f
        /\ pc[g] # "new"
        /\ Webhook(f, frag[g], twilio_message_sid[g])

\* message_aggregator.py 147-151: the insert failed with another error
InsertFails(f) ==
    /\ faults < MaxFaults
    /\ faults' = faults + 1
    /\ pc[f] = "new"
    /\ \A g \in Frags : g < f => pc[g] # "new"
    /\ \E u \in Inbound :
         /\ ShouldAggregate(u)
         /\ frag' = [frag EXCEPT ![f] = u]
         /\ group_key' = [group_key EXCEPT ![f] = GroupKey(u.phone_number, now)]
    /\ twilio_message_sid' = [twilio_message_sid EXCEPT ![f] = f]
    /\ err' = [err EXCEPT ![f] = "insert"]
    /\ ProcessNow(f, "FAIL_OPEN", ToDict(f))
    /\ UNCHANGED <<now, store, item, published, response>>
    /\ UNCHANGED sweepVars
    /\ UNCHANGED message_ids
    /\ UNCHANGED pureVars
    /\ UNCHANGED decode_error

\* message_aggregator.py 101-112
Select(f) ==
    /\ UNCHANGED faults
    /\ pc[f] = "select"
    /\ IF ~Exists(group_key[f])
       THEN /\ ProcessNow(f, "NOT_FOUND", ToDict(f))
            /\ UNCHANGED item
       ELSE /\ item' = [item EXCEPT ![f] = store[group_key[f]]]
            /\ pc' = [pc EXCEPT ![f] = "update"]
            /\ UNCHANGED <<outcome, message_to_send,
                           is_aggregated_final_message>>
    /\ UNCHANGED <<now, store, frag, twilio_message_sid, group_key, err, published, response>>
    /\ UNCHANGED sweepVars
    /\ UNCHANGED message_ids
    /\ UNCHANGED pureVars
    /\ UNCHANGED decode_error

SelectFails(f) ==
    /\ faults < MaxFaults
    /\ faults' = faults + 1
    /\ pc[f] = "select"
    /\ Raised(f, "select")
    /\ UNCHANGED <<now, store, frag, twilio_message_sid, group_key, item, published, response>>
    /\ UNCHANGED sweepVars
    /\ UNCHANGED message_ids
    /\ UNCHANGED pureVars
    /\ UNCHANGED decode_error

\* messages = json.loads(item['messages']); messages.append(...)
Messages(f) == Append(item[f].messages, f)

\* message_aggregator.py 113-133, 142-145: write the read list plus this
\* message over the row with this key (no row: nothing is written), then
\* decide on the list just written and the read created_at.
Update(f) ==
    /\ UNCHANGED faults
    /\ pc[f] = "update"
    /\ LET k == group_key[f]
       IN store' = IF ~Exists(k) THEN store
                   ELSE [store EXCEPT ![k] = Updated(store[k], Messages(f))]
    /\ IF ShouldProcess(Messages(f), now - item[f].created_at)
       THEN /\ pc' = [pc EXCEPT ![f] = "delete"]
            /\ UNCHANGED <<outcome, response>>
       ELSE Held(f, frag[f].client_type, FALSE)
    /\ UNCHANGED <<now, frag, twilio_message_sid, group_key, item, message_to_send,
                   is_aggregated_final_message, err, published>>
    /\ UNCHANGED sweepVars
    /\ UNCHANGED message_ids
    /\ UNCHANGED pureVars
    /\ UNCHANGED decode_error

UpdateFails(f) ==
    /\ faults < MaxFaults
    /\ faults' = faults + 1
    /\ pc[f] = "update"
    /\ Raised(f, "update")
    /\ UNCHANGED <<now, store, frag, twilio_message_sid, group_key, item, published, response>>
    /\ UNCHANGED sweepVars
    /\ UNCHANGED message_ids
    /\ UNCHANGED pureVars
    /\ UNCHANGED decode_error

\* message_aggregator.py 134-141
Delete(f) ==
    /\ UNCHANGED faults
    /\ pc[f] = "delete"
    /\ store' = DeleteRow(store, group_key[f])
    /\ ProcessNow(f, "RELEASED", MergeMessages(Messages(f), group_key[f]))
    /\ UNCHANGED <<now, frag, twilio_message_sid, group_key, item, err, published, response>>
    /\ UNCHANGED sweepVars
    /\ UNCHANGED message_ids
    /\ UNCHANGED pureVars
    /\ UNCHANGED decode_error

DeleteFails(f) ==
    /\ faults < MaxFaults
    /\ faults' = faults + 1
    /\ pc[f] = "delete"
    /\ Raised(f, "delete")
    /\ UNCHANGED <<now, store, frag, twilio_message_sid, group_key, item, published, response>>
    /\ UNCHANGED sweepVars
    /\ UNCHANGED message_ids
    /\ UNCHANGED pureVars
    /\ UNCHANGED decode_error

\* A faulty variant of MessageId: the attribute is the message_id of the
\* message body, which a merged message copies from its first message.
MessageIdOfBody(message, n) == <<"parsed", message.messages[1]>>

\* message_id = str(uuid.uuid4()): the value of the n-th call of uuid4 made
\* for a publish; calls of uuid4 return values that differ from each other
\* and from those drawn when the messages were parsed.
MessageId(message, n) == <<"publish", n>>

\* handler.py 144-177, stale handler 63-101: the sns.publish call, made by
\* a webhook invocation or (caller 0) by the stale processor
SnsPublish(caller, message) ==
    message_ids' = Append(message_ids,
                          [caller |-> caller,
                           message_id |-> MessageId(message,
                                                    Len(message_ids) + 1)])

\* handler.py 135-196: sns.publish accepted the message
Publish(f) ==
    /\ UNCHANGED faults
    /\ pc[f] = "publish"
    /\ SnsPublish(f, message_to_send[f])
    /\ published' = [published EXCEPT ![f] = "accepted"]
    /\ response' = [response EXCEPT ![f] =
          IF is_aggregated_final_message[f]
          THEN EmptyResponse
          ELSE SuccessResponse(frag[f].client_type,
                  IF frag[f].client_type # "whatsapp"
                  THEN "Your request is being processed" ELSE None)]
    /\ pc' = [pc EXCEPT ![f] = "done"]
    /\ UNCHANGED <<now, store, frag, twilio_message_sid, group_key, item, message_to_send,
                   is_aggregated_final_message, outcome, err>>
    /\ UNCHANGED sweepVars
    /\ UNCHANGED pureVars
    /\ UNCHANGED decode_error

\* handler.py 198-205: sns.publish raised
PublishFails(f) ==
    /\ faults < MaxFaults
    /\ faults' = faults + 1
    /\ pc[f] = "publish"
    /\ SnsPublish(f, message_to_send[f])
    /\ published' = [published EXCEPT ![f] = "failed"]
    /\ response' = [response EXCEPT ![f] =
          SuccessResponse(frag[f].client_type,
              "Request received, but there was an issue processing it")]
    /\ pc' = [pc EXCEPT ![f] = "done"]
    /\ UNCHANGED <<now, store, frag, twilio_message_sid, group_key, item, message_to_send,
                   is_aggregated_final_message, outcome, err>>
    /\ UNCHANGED sweepVars
    /\ UNCHANGED pureVars
    /\ UNCHANGED decode_error

\* Time passes.
Tick ==
    /\ UNCHANGED faults
    /\ now < MaxTime
    /\ now' = now + 1
    /\ UNCHANGED <<store>>
    /\ UNCHANGED ingestVars
    /\ UNCHANGED sweepVars
    /\ UNCHANGED message_ids
    /\ UNCHANGED pureVars

\* No invocation is running, and none starts for the next max_age_seconds
\* or the next max_age_minutes (an invocation does not last that long).
Elapse ==
    /\ UNCHANGED faults
    /\ spc = "idle"
    /\ \A f \in Frags : pc[f] \in {"new", "done"}
    /\ now <= MaxTime
    /\ \E d \in {max_age_seconds, 60 * max_age_minutes} : now' = now + d
    /\ UNCHANGED <<store>>
    /\ UNCHANGED ingestVars
    /\ UNCHANGED sweepVars
    /\ UNCHANGED message_ids
    /\ UNCHANGED pureVars

---------------------------------------------------------------------------
(* The stale-message processor: lambda_handler, process_stale_messages,    *)
(* cleanup_expired_groups                                                  *)

NoStale == [processed |-> 0, failed |-> 0, message |-> "No stale messages"]

\* A faulty variant of StaleKeys: the cutoff itself counts as older.
StaleKeysInclusive(t) ==
    {k \in DOMAIN store : store[k].created_at <= t - max_age_seconds}

\* .lt('created_at', cutoff_time): the rows older than max_age_seconds
StaleKeys(t) ==
    {k \in DOMAIN store : store[k].created_at < t - max_age_seconds}

\* stale handler 44-52, message_aggregator.py 198-208: the query; its rows
\* come in no particular order.
SweepSelect ==
    /\ UNCHANGED faults
    /\ spc = "idle"
    /\ IF StaleKeys(now) = {}
       THEN /\ sweep_result' = NoStale
            /\ UNCHANGED <<spc, response_data>>
       ELSE /\ \E order \in Perms(StaleKeys(now)) :
                 response_data' =
                    [i \in 1..Len(order) |->
                        [group_key |-> order[i],
                         messages |-> store[order[i]].messages]]
            /\ spc' = "loop"
            /\ UNCHANGED sweep_result
    /\ queried' = StaleKeys(now)
    /\ removed' = {}
    /\ stale_messages' = <<>>
    /\ processed_count' = 0
    /\ failed_count' = 0
    /\ UNCHANGED <<now, store, sweep_sent>>
    /\ UNCHANGED ingestVars
    /\ UNCHANGED message_ids
    /\ UNCHANGED pureVars

\* message_aggregator.py 228-230 then handler 47-52: the query raised
SweepSelectFails ==
    /\ faults < MaxFaults
    /\ faults' = faults + 1
    /\ spc = "idle"
    /\ sweep_result' = NoStale
    /\ stale_messages' = <<>>
    /\ processed_count' = 0
    /\ failed_count' = 0
    /\ queried' = {}
    /\ removed' = {}
    /\ UNCHANGED <<now, store, spc, response_data, sweep_sent>>
    /\ UNCHANGED ingestVars
    /\ UNCHANGED message_ids
    /\ UNCHANGED pureVars

\* message_aggregator.py 210-226: one pass of the loop: merge the read row,
\* collect it, delete the row with that key
SweepDelete ==
    /\ UNCHANGED faults
    /\ spc = "loop"
    /\ LET it == Head(response_data)
       IN /\ stale_messages' =
                Append(stale_messages, MergeMessages(it.messages, it.group_key))
          /\ store' = DeleteRow(store, it.group_key)
          /\ removed' = IF Exists(it.group_key)
                        THEN removed \cup {it.group_key} ELSE removed
    /\ response_data' = Tail(response_data)
    /\ spc' = IF Tail(response_data) = <<>> THEN "publish" ELSE "loop"
    /\ UNCHANGED <<now, queried, sweep_sent, processed_count, failed_count,
                   sweep_result>>
    /\ UNCHANGED ingestVars
    /\ UNCHANGED message_ids
    /\ UNCHANGED pureVars

\* message_aggregator.py 228-230: a delete raised; process_stale_messages
\* returns [], and the handler answers "No stale messages" (47-52)
SweepDeleteFails ==
    /\ faults < MaxFaults
    /\ faults' = faults + 1
    /\ spc = "loop"
    /\ stale_messages' = <<>>
    /\ response_data' = <<>>
    /\ sweep_result' = NoStale
    /\ spc' = "idle"
    /\ UNCHANGED <<now, store, queried, removed, sweep_sent, processed_count,
                   failed_count>>
    /\ UNCHANGED ingestVars
    /\ UNCHANGED message_ids
    /\ UNCHANGED pureVars

\* stale handler 58-105
SweepPublish ==
    /\ UNCHANGED faults
    /\ spc = "publish"
    /\ SnsPublish(0, Head(stale_messages))
    /\ sweep_sent' = Append(sweep_sent, Head(stale_messages))
    /\ processed_count' = processed_count + 1
    /\ stale_messages' = Tail(stale_messages)
    /\ spc' = IF Tail(stale_messages) = <<>> THEN "cleanup" ELSE "publish"
    /\ UNCHANGED <<now, store, queried, removed, response_data, failed_count,
                   sweep_result>>
    /\ UNCHANGED ingestVars
    /\ UNCHANGED pureVars

\* stale handler 107-109
SweepPublishFails ==
    /\ faults < MaxFaults
    /\ faults' = faults + 1
    /\ spc = "publish"
    /\ SnsPublish(0, Head(stale_messages))
    /\ failed_count' = failed_count + 1
    /\ stale_messages' = Tail(stale_messages)
    /\ spc' = IF Tail(stale_messages) = <<>> THEN "cleanup" ELSE "publish"
    /\ UNCHANGED <<now, store, queried, removed, response_data, sweep_sent,
                   processed_count, sweep_result>>
    /\ UNCHANGED ingestVars
    /\ UNCHANGED pureVars

SweepReturn ==
    /\ sweep_result' = [processed |-> processed_count, failed |-> failed_count,
                        message |-> "Processed stale messages"]
    /\ spc' = "idle"
    /\ UNCHANGED <<now, queried, removed, response_data, stale_messages,
                   sweep_sent, processed_count, failed_count>>
    /\ UNCHANGED ingestVars
    /\ UNCHANGED message_ids
    /\ UNCHANGED pureVars

\* A faulty variant of ExpiredKeys: the age is taken in seconds.
ExpiredKeysInSeconds(t) ==
    {k \in DOMAIN store : store[k].created_at < t - max_age_minutes}

\* cutoff_time = utcnow() - timedelta(minutes=max_age_minutes);
\* .lt('created_at', cutoff_time): the rows the cleanup deletes
ExpiredKeys(t) ==
    {k \in DOMAIN store : store[k].created_at < t - 60 * max_age_minutes}

\* stale handler 113-126, message_aggregator.py 240-250
Cleanup ==
    /\ UNCHANGED faults
    /\ spc = "cleanup"
    /\ store' = [k \in DOMAIN store \ ExpiredKeys(now) |-> store[k]]
    /\ SweepReturn

\* message_aggregator.py 252-253: the delete raised and is logged
CleanupFails ==
    /\ faults < MaxFaults
    /\ faults' = faults + 1
    /\ spc = "cleanup"
    /\ UNCHANGED store
    /\ SweepReturn

---------------------------------------------------------------------------

Ingest(f) ==
    \/ Receive(f)
    \/ Select(f)
    \/ Update(f)
    \/ Delete(f)
    \/ Publish(f)

IngestFails(f) ==
    \/ InsertFails(f)
    \/ SelectFails(f)
    \/ UpdateFails(f)
    \/ DeleteFails(f)
    \/ PublishFails(f)

Sweep ==
    \/ SweepSelect
    \/ SweepDelete
    \/ SweepPublish
    \/ Cleanup

SweepFails ==
    \/ SweepSelectFails
    \/ SweepDeleteFails
    \/ SweepPublishFails
    \/ CleanupFails

Next ==
    \/ \E f \in Frags : Ingest(f)
    \/ \E f \in Frags : IngestFails(f)
    \/ Sweep
    \/ SweepFails
    \/ Tick

Spec == Init /\ [][Next]_vars

\* No storage call and no publish fails.
NextNoFail ==
    \/ \E f \in Frags : Ingest(f)
    \/ Sweep
    \/ Tick

SpecNoFail == Init /\ [][NextNoFail]_vars

\* The webhook invocations run one after the other, with no stale processor.
ReceiveNext(f) ==
    /\ \A g \in Frags : g < f => pc[g] = "done"
    /\ Receive(f)

NextSeq ==
    \/ \E f \in Frags : ReceiveNext(f)
    \/ \E f \in Frags : Select(f) \/ Update(f) \/ Delete(f) \/ Publish(f)
    \/ Tick

SpecSeq == Init /\ [][NextSeq]_vars

\* Webhook invocations, some of them redeliveries, with no stale processor.
NextRedeliver ==
    \/ \E f \in Frags : Ingest(f)
    \/ \E f \in Frags : Redelivery(f)
    \/ Tick

SpecRedeliver == Init /\ [][NextRedeliver]_vars

\* ResponseFactory.create_error_response(client_type, message, status_code,
\* error_code): TwiML for WhatsApp, JSON otherwise, both with the status code.
ErrorResponse(client_type, message, status_code) ==
    [statusCode |-> status_code, body |-> message]

\* message_parser.py 137-183: UnifiedMessage built from data = {}
EmptyJsonMessage ==
    [client_type |-> "webapp", phone_number |-> "", num_media |-> 0]

\* handler.py 81-91: MessageParser.parse_message raised (NumMedia that is
\* not a number, a body that is not base64, JSON that is not an object);
\* the webhook answers 400 PARSE_ERROR.
ParseRaises(f) ==
    /\ UNCHANGED faults
    /\ pc[f] = "new"
    /\ \A g \in Frags : g < f => pc[g] # "new"
    /\ decode_error' = [decode_error EXCEPT ![f] = "Exception"]
    /\ outcome' = [outcome EXCEPT ![f] = "PARSE_ERROR"]
    /\ \E client_type \in ClientTypes :
          response' = [response EXCEPT ![f] =
              ErrorResponse(client_type, "Failed to parse message", 400)]
    /\ pc' = [pc EXCEPT ![f] = "done"]
    /\ UNCHANGED <<now, store, frag, twilio_message_sid, group_key, item,
                   message_to_send, is_aggregated_final_message, err,
                   published>>
    /\ UNCHANGED sweepVars
    /\ UNCHANGED message_ids
    /\ UNCHANGED pureVars

\* message_parser.py 137-141 and handler.py 124-127: the body of a webapp
\* request is not valid JSON; json.JSONDecodeError is caught, data = {}, and
\* the message built from it goes the way of any message that is not
\* aggregated.
InvalidJson(f) ==
    /\ UNCHANGED faults
    /\ pc[f] = "new"
    /\ \A g \in Frags : g < f => pc[g] # "new"
    /\ decode_error' = [decode_error EXCEPT ![f] = "JSONDecodeError"]
    /\ frag' = [frag EXCEPT ![f] = EmptyJsonMessage]
    /\ twilio_message_sid' = [twilio_message_sid EXCEPT ![f] = f]
    /\ ~ShouldAggregate(EmptyJsonMessage)
    /\ pc' = [pc EXCEPT ![f] = "publish"]
    /\ outcome' = [outcome EXCEPT ![f] = "BYPASS"]
    /\ message_to_send' = [message_to_send EXCEPT ![f] = ToDict(f)]
    /\ UNCHANGED <<now, store, group_key, item, is_aggregated_final_message,
                   err, published, response>>
    /\ UNCHANGED sweepVars
    /\ UNCHANGED message_ids
    /\ UNCHANGED pureVars

\* Two webhook invocations, some with a body that cannot be decoded, and
\* the stale processor.
NextMalformed ==
    \/ \E f \in {1, 2} : Ingest(f)
    \/ \E f \in {1, 2} : IngestFails(f)
    \/ \E f \in {1, 2} : ParseRaises(f)
    \/ \E f \in {1, 2} : InvalidJson(f)
    \/ Sweep
    \/ SweepFails
    \/ Tick

SpecMalformed == Init /\ [][NextMalformed]_vars

\* message_parser.py 143-162: a webapp request carries one media item per
\* entry of s3_keys, however many there are.
JsonInbound ==
    [client_type : {"webapp"}, phone_number : Phones,
     num_media : NumMediaChoices]

\* A webapp request with any number of s3_keys.
ReceiveJson(f) == \E u \in JsonInbound : Webhook(f, u, f)

\* Two invocations, WhatsApp webhooks or webapp requests, with no stale
\* processor and no failure.
NextJson ==
    \/ \E f \in {1, 2} : Ingest(f)
    \/ \E f \in {1, 2} : ReceiveJson(f)
    \/ Tick

SpecJson == Init /\ [][NextJson]_vars

\* A WhatsApp webhook with one image from a second phone number.
ReceiveOther(f) ==
    Webhook(f, [client_type |-> "whatsapp", phone_number |-> "p2",
                num_media |-> 1], f)

\* Three webhook invocations of two phone numbers over two windows, with no
\* stale processor and no failure.
NextPhones ==
    \/ \E f \in {1, 2, 3} : Ingest(f)
    \/ \E f \in {1, 2, 3} : ReceiveOther(f)
    \/ Tick

SpecPhones == Init /\ [][NextPhones]_vars

\* The lists _merge_messages is called on: 1 to MaxFrags messages, each with
\* a text body or none and some media items.
MessageLists ==
    UNION {{[j \in 1..len |-> Dict(j, t[j], n[j])] :
                t \in [1..len -> Texts], n \in [1..len -> NumMediaChoices]} :
           len \in 1..MaxFrags}

InitMerge ==
    /\ InitProgram
    /\ merge_args \in MessageLists
    /\ merge_out = <<>>
    /\ key_args = <<>>
    /\ key_out = <<>>

\* A call of _merge_messages on the list; it is called at most twice.
Merge ==
    /\ Len(merge_out) < 2
    /\ merge_out' = Append(merge_out, MergeDicts(merge_args))
    /\ merge_args' = AfterMerge(merge_args)
    /\ UNCHANGED message_ids
    /\ UNCHANGED keyVars
    /\ UNCHANGED <<now, store, faults>>
    /\ UNCHANGED ingestVars
    /\ UNCHANGED sweepVars

SpecMerge == InitMerge /\ [][Merge]_vars

\* The same calls, the empty list among the lists.
InitMergeAny ==
    /\ InitProgram
    /\ merge_args \in MessageLists \cup {<<>>}
    /\ merge_out = <<>>
    /\ key_args = <<>>
    /\ key_out = <<>>

SpecMergeAny == InitMergeAny /\ [][Merge]_vars

---------------------------------------------------------------------------
(* The group key as the string the code builds, computed in isolation *)

\* str of a digit
Digit(d) == <<"0", "1", "2", "3", "4", "5", "6", "7", "8", "9">>[d + 1]

RECURSIVE Str(_)
\* str of a non-negative int, as its sequence of characters
Str(n) == IF n < 10 THEN <<Digit(n)>>
          ELSE Str(n \div 10) \o <<Digit(n % 10)>>

\* A faulty variant of GroupKeyString: the phone number and the timestamp
\* are concatenated without the separator.
GroupKeyStringNoSeparator(phone_number, current_time) ==
    phone_number \o Str(GroupTimestamp(current_time))

\* message_aggregator.py 75-79: f"{phone_number}#{group_timestamp}", the
\* phone number being a sequence of characters.
GroupKeyString(phone_number, current_time) ==
    phone_number \o <<"#">> \o Str(GroupTimestamp(current_time))

\* Phone numbers of which one is a prefix of the other.
PhoneStrings == {<<"7">>, <<"7", "1">>}

\* The calls: the message's phone number and media count, and the value
\* of int(time.time()) at the call.
KeyCalls == [phone_number : PhoneStrings, num_media : {1, MaxNumMedia},
             current_time : 0..MaxTime]

InitKey ==
    /\ InitProgram
    /\ merge_args = <<>>
    /\ merge_out = <<>>
    /\ key_args \in [1..2 -> KeyCalls]
    /\ key_out = <<>>

\* The next call computes its key.
ComputeKey ==
    /\ Len(key_out) < Len(key_args)
    /\ LET message == key_args[Len(key_out) + 1]
       IN key_out' = Append(key_out, GroupKeyString(message.phone_number,
                                                    message.current_time))
    /\ UNCHANGED message_ids
    /\ UNCHANGED key_args
    /\ UNCHANGED mergeVars
    /\ UNCHANGED <<now, store, faults>>
    /\ UNCHANGED ingestVars
    /\ UNCHANGED sweepVars

SpecKey == InitKey /\ [][ComputeKey]_vars

\* Two webhook invocations and the stale processor, whose calls may fail,
\* over minutes.
NextSweep ==
    \/ \E f \in {1, 2} : Ingest(f)
    \/ Sweep
    \/ SweepFails
    \/ Tick
    \/ Elapse

SpecSweep == Init /\ [][NextSweep]_vars

\* Two webhook invocations race, with no stale processor.
NextRace ==
    \/ \E f \in {1, 2} : Ingest(f)
    \/ Tick

SpecRace == Init /\ [][NextRace]_vars

\* The scheduler invokes the stale processor again and again, time passes,
\* and a webhook invocation that has started runs to its end.  Nothing
\* obliges a call to fail or a further fragment to arrive.
Proceed(f) == Select(f) \/ Update(f) \/ Delete(f) \/ Publish(f)

Fairness ==
    /\ WF_vars(Tick)
    /\ WF_vars(Sweep)
    /\ \A f \in Frags : WF_vars(Proceed(f))

\* Two webhook invocations and the stale processor, any call may fail.
NextLive ==
    \/ \E f \in {1, 2} : Ingest(f)
    \/ \E f \in {1, 2} : IngestFails(f)
    \/ Sweep
    \/ SweepFails
    \/ Tick

LiveSpec == Init /\ [][NextLive]_vars /\ Fairness

\* The same steps, with nothing said about what must happen.
SpecPair == Init /\ [][NextLive]_vars

---------------------------------------------------------------------------
(* What has been handed to the Dispatcher *)

Accepted(f) == published[f] = "accepted"

\* The messages sns.publish accepted for rows of group_key k
FastReleases(k) ==
    {f \in Frags : /\ Accepted(f)
                   /\ message_to_send[f].kind = "merged"
                   /\ message_to_send[f].group_key = k}

SweepReleases(k) ==
    {i \in 1..Len(sweep_sent) : sweep_sent[i].group_key = k}

\* The accepted messages that carry fragment f
CarriedByIngest(f) ==
    {g \in Frags : Accepted(g) /\ f \in SeqToSet(message_to_send[g].messages)}

CarriedBySweep(f) ==
    {i \in 1..Len(sweep_sent) : f \in SeqToSet(sweep_sent[i].messages)}

Dispatched(f) == CarriedByIngest(f) # {} \/ CarriedBySweep(f) # {}

InStore(f) == \E k \in DOMAIN store : f \in SeqToSet(store[k].messages)

Eligible(f) == pc[f] # "new" /\ ShouldAggregate(frag[f])

\* Fragment f is in a message that an invocation still holds and has not yet
\* handed to sns.publish, or in a list that a running call is about to write.
Pending(f) ==
    \/ pc[f] \in {"select", "update", "delete", "publish"}
    \/ \E g \in Frags : /\ pc[g] = "publish"
                        /\ f \in SeqToSet(message_to_send[g].messages)
    \/ \E g \in Frags : /\ pc[g] \in {"update", "delete"}
                        /\ f \in SeqToSet(item[g].messages)
    \/ \E i \in 1..Len(stale_messages) :
            f \in SeqToSet(stale_messages[i].messages)
    \/ \E i \in 1..Len(response_data) :
            f \in SeqToSet(response_data[i].messages)

---------------------------------------------------------------------------
(* Claims *)

\* C1: for every group_key, sns.publish accepts at most one message built
\* from that group_key's row, fast-path and sweep releases counted together.
C1_AtMostOneRelease ==
    \A k \in Keys :
        Cardinality(FastReleases(k)) + Cardinality(SweepReleases(k)) <= 1

Arrived == {f \in Frags : pc[f] # "new"}

\* N fragments of one sender in one window, one media item each, have all
\* been ingested, and a sweep has since left the store empty.
BurstSettled ==
    /\ Arrived # {}
    /\ \A f \in Arrived : /\ pc[f] = "done"
                          /\ ShouldAggregate(frag[f])
                          /\ frag[f].num_media = 1
                          /\ group_key[f] = group_key[1]
    /\ spc = "idle"
    /\ DOMAIN store = {}

\* C2: once all the ingest calls of a burst of N <= 3 fragments and a later
\* sweep have completed, exactly one message has been dispatched, and it
\* carries the media of all N fragments.
C2_NoLoss ==
    BurstSettled =>
        /\ Cardinality({f \in Frags : Accepted(f)}) + Len(sweep_sent) = 1
        /\ \A f \in Arrived : Dispatched(f)

\* C4: three fragments ingested one after the other within MAX_WAIT of the
\* first (everything so far happened in the first MAX_WAIT seconds): the
\* first two calls return HELD, the third returns RELEASED with the media of
\* F1, F2, F3 in that order, cut to 3.
C4_Threshold ==
    /\ (/\ Eligible(1) /\ Eligible(2)
        /\ group_key[2] = group_key[1]
        /\ pc[2] \in {"publish", "done"}
        /\ now <= MAX_WAIT)
       => outcome[1] = "HELD_FIRST" /\ outcome[2] = "HELD"
    /\ (/\ Eligible(1) /\ Eligible(2) /\ Eligible(3)
        /\ group_key[2] = group_key[1] /\ group_key[3] = group_key[1]
        /\ pc[3] \in {"publish", "done"}
        /\ now <= MAX_WAIT)
       => /\ outcome[3] = "RELEASED"
          /\ MediaOf(message_to_send[3], frag)
                = Truncate(AllMedia(<<1, 2, 3>>, frag), MAX_MEDIA)

\* C5: a group of 1 or 2 fragments is not released by the fast path while
\* its age is within MAX_WAIT: no ingest call returns RELEASED for it.
C5_HeldUntilSweep ==
    \A f \in Frags :
        (outcome[f] = "RELEASED" /\ now - item[f].created_at <= MAX_WAIT)
            => Len(message_to_send[f].messages) >= 3

\* C7: a write by the read-append-update path never replaces a row's list by
\* one that omits a fragment the row already held.
C7_NoOverwrite ==
    [][\A k \in DOMAIN store \cap DOMAIN store' :
          SeqToSet(store[k].messages) \subseteq SeqToSet(store'[k].messages)]_vars

\* C8: a fragment that a row held is, once its own call has returned, still
\* in the store, or pending dispatch, or in a message the Dispatcher accepted.
C8_DispatchBeforeDelete ==
    \A f \in Frags :
        outcome[f] = "HELD_FIRST" => InStore(f) \/ Pending(f) \/ Dispatched(f)

\* C10: among the responses to the fragments of a group, the one to the
\* fragment whose insert created the row carries the acknowledgment and
\* every other one has an empty body.
C10_OneAck ==
    \A f \in Frags :
        (pc[f] = "done" /\ ShouldAggregate(frag[f])) =>
            IF outcome[f] = "HELD_FIRST"
            THEN response[f].body = "twiml:analyzing"
            ELSE response[f].body = ""

\* A row that holds fragment f and that the clock of the model can see
\* grow older than max_age_seconds.
HeldInRow(f) ==
    \E k \in DOMAIN store :
        /\ f \in SeqToSet(store[k].messages)
        /\ store[k].created_at + max_age_seconds < MaxTime

\* C3: with the stale processor invoked again and again, every row that is
\* created is eventually removed and its fragments handed to the Dispatcher.
C3_EventualDispatch ==
    \A f \in Frags : [](HeldInRow(f) => <>(~InStore(f) /\ Dispatched(f)))

\* C6: two ingest calls race on one group_key with no row beforehand: one
\* insert succeeds and that call is HELD; the other takes the
\* read-append-update path, and the row it leaves, or the message it
\* releases, holds both fragments.
C6_InsertRace ==
    (/\ Eligible(1) /\ Eligible(2)
     /\ group_key[1] = group_key[2]
     /\ pc[1] = "done" /\ pc[2] = "done")
    => /\ outcome[1] = "HELD_FIRST"
       /\ outcome[2] \in {"RELEASED", "HELD"}
       /\ item[2].messages = <<1>>
       /\ IF outcome[2] = "RELEASED"
          THEN /\ message_to_send[2].messages = <<1, 2>>
               /\ group_key[2] \notin DOMAIN store
          ELSE /\ group_key[2] \in DOMAIN store
               /\ store[group_key[2]].messages = <<1, 2>>

C6_Witness ==
    /\ Eligible(1) /\ Eligible(2)
    /\ group_key[1] = group_key[2]
    /\ outcome[1] = "HELD_FIRST"
    /\ outcome[2] = "RELEASED"
    /\ pc[2] = "done"
    /\ message_to_send[2].messages = <<1, 2>>

\* C9: an ingest call one of whose storage calls failed with another error
\* than the duplicate key hands its own fragment alone to sns.publish, and
\* the webhook answers 200.
C9_FailOpen ==
    \A f \in Frags :
        err[f] # None =>
            /\ pc[f] \in {"publish", "done"}
            /\ message_to_send[f] = ToDict(f)
            /\ pc[f] = "done" =>
                  /\ published[f] \in {"accepted", "failed"}
                  /\ response[f].statusCode = 200

C9_Witness ==
    \E f \in Frags :
        /\ err[f] = "update"
        /\ pc[f] = "done"
        /\ Accepted(f)
        /\ message_to_send[f] = ToDict(f)

\* The invocation carries fragment f into a row or a dispatched message.
Contributes(f) == InStore(f) \/ Dispatched(f)

\* C11: of two deliveries of one WhatsApp media webhook (the same
\* MessageSid), at most one puts its media into a group row or into a
\* dispatched message.
C11_Dedup ==
    \A f, g \in Frags :
        (/\ f < g
         /\ pc[g] # "new"
         /\ ShouldAggregate(frag[f])
         /\ twilio_message_sid[f] = twilio_message_sid[g])
        => ~(Contributes(f) /\ Contributes(g))

\* C12: an invocation whose message is not from WhatsApp, or has no media
\* item, computes no key, reads no row, leaves the table as it is in each of
\* its steps, and hands its own message alone to sns.publish.
C12_Bypass ==
    [][\A f \in Frags :
          (/\ pc'[f] # "new"
           /\ (frag'[f].client_type # "whatsapp" \/ frag'[f].num_media = 0))
          => /\ outcome'[f] = "BYPASS"
             /\ group_key'[f] = NoKey
             /\ item'[f] = NoItem
             /\ pc[f] # pc'[f] => store' = store
             /\ message_to_send'[f].kind = "single"
             /\ message_to_send'[f].messages = <<f>>
             /\ ~is_aggregated_final_message'[f]
             /\ pc'[f] \in {"publish", "done"}
             /\ pc'[f] = "done" => published'[f] \in {"accepted", "failed"}
      ]_vars

C12_Witness ==
    \E f \in Frags :
        /\ frag[f].client_type = "whatsapp"
        /\ frag[f].num_media = 0
        /\ pc[f] = "done"
        /\ published[f] = "accepted"
        /\ message_to_send[f].messages = <<f>>
        /\ \E k \in DOMAIN store : store[k].messages = <<1>>

\* C13: the invocation whose insert creates the row returns HELD: the row
\* holds exactly its message, and the invocation ends there, acknowledged,
\* with nothing handed to sns.publish, then or later.
C13_FirstHeld ==
    [][\A f \in Frags :
          /\ (/\ pc[f] = "new"
              /\ group_key'[f] \notin DOMAIN store
              /\ group_key'[f] \in DOMAIN store')
             => /\ outcome'[f] = "HELD_FIRST"
                /\ store'[group_key'[f]].messages = <<f>>
                /\ store'[group_key'[f]].message_count = 1
                /\ store'[group_key'[f]].created_at = now
                /\ response'[f].statusCode = 200
          /\ outcome'[f] = "HELD_FIRST"
             => /\ pc'[f] = "done"
                /\ published'[f] = None
                /\ message_to_send'[f] = NoMessage
      ]_vars

C13_Witness ==
    /\ outcome[1] = "HELD_FIRST"
    /\ pc[1] = "done"
    /\ published[1] = None
    /\ group_key[1] \in DOMAIN store
    /\ store[group_key[1]].messages = <<1>>
    /\ pc[2] = "done"

\* C14: after its append has been written, the call releases the group if
\* and only if the list written has at least MAX_FRAGMENTS = 3 messages or
\* more than MAX_WAIT = 3 seconds have passed since the row's created_at;
\* otherwise it returns HELD and the row stays.
C14_ReleaseDecision ==
    [][\A f \in Frags :
          (/\ pc[f] = "update"
           /\ pc'[f] # "update"
           /\ err'[f] = None
           /\ group_key[f] \in DOMAIN store)
          => IF \/ Len(Messages(f)) >= MAX_FRAGMENTS
                \/ now - item[f].created_at > MAX_WAIT
             THEN pc'[f] = "delete"
             ELSE /\ outcome'[f] = "HELD"
                  /\ pc'[f] = "done"
                  /\ group_key[f] \in DOMAIN store'
      ]_vars

RECURSIVE MediaUpTo(_, _)
\* The media items of the first n messages of the list ms, in list order.
MediaUpTo(ms, n) ==
    IF n = 0 THEN <<>> ELSE MediaUpTo(ms, n - 1) \o ms[n].media_items

\* The places of the list whose text body is not empty.
WithText(ms) == {j \in 1..Len(ms) : ms[j].text_body # <<>>}

RECURSIVE JoinedUpTo(_, _)
\* The non-empty text bodies of the first n messages, ' | ' between them.
JoinedUpTo(ms, n) ==
    IF n = 0 THEN <<>>
    ELSE IF n \notin WithText(ms) THEN JoinedUpTo(ms, n - 1)
    ELSE IF \A j \in WithText(ms) : j >= n THEN ms[n].text_body
    ELSE JoinedUpTo(ms, n - 1) \o <<" ", "|", " ">> \o ms[n].text_body

\* C15: what _merge_messages returns for a non-empty list: the media items
\* of the messages in list order, the first 3 of them; the non-empty text
\* bodies joined with ' | ' in list order, or the first message's text body
\* when all are empty; every other field as in the first message.
C15_MergeResult ==
    \A c \in 1..Len(merge_out) :
        LET merged == merge_out[c]
            all == MediaUpTo(merge_args, Len(merge_args))
        IN /\ Len(merged.media_items) = IF Len(all) < 3 THEN Len(all) ELSE 3
           /\ \A x \in 1..Len(merged.media_items) :
                  merged.media_items[x] = all[x]
           /\ merged.text_body =
                  IF WithText(merge_args) = {} THEN merge_args[1].text_body
                  ELSE JoinedUpTo(merge_args, Len(merge_args))
           /\ merged.message_id = merge_args[1].message_id

C15_Witness ==
    /\ Len(merge_args) = 3
    /\ Len(merge_out) = 1
    /\ merge_args[1].text_body = <<>>
    /\ merge_out[1].text_body = <<"a", " ", "|", " ", "b">>
    /\ merge_out[1].media_items = <<<<1, 1>>, <<2, 1>>, <<3, 1>>>>
    /\ Len(merge_args[3].media_items) > 1

SweepReleased(k) == \E i \in 1..Len(sweep_sent) : sweep_sent[i].group_key = k

\* C17: when an invocation of the stale processor ends, the stale groups it
\* queried and did not release are no more than the calls that failed: a
\* failure on one group costs no other group its release.
C17_SweepIsolation ==
    [][(spc # "idle" /\ spc' = "idle")
          => Cardinality({k \in queried : ~SweepReleased(k)'}) <= faults'
      ]_vars

\* The stale processor runs one pass of its loop.
SweepLoopStep ==
    /\ spc = "loop"
    /\ response_data' = Tail(response_data)
    /\ faults' = faults

\* C18: when the row of the group the stale processor is about to merge and
\* delete has been deleted by a fast-path release since the query, the
\* delete changes nothing and raises nothing, the loop goes on, and the
\* stale processor does not merge the group it read for dispatch.
C18_VanishedRow ==
    [][(/\ SweepLoopStep
        /\ Head(response_data).group_key \notin DOMAIN store
        /\ \E f \in Frags :
              /\ outcome[f] = "RELEASED"
              /\ group_key[f] = Head(response_data).group_key)
       => /\ store' = store
          /\ spc' \in {"loop", "publish"}
          /\ stale_messages' = stale_messages
      ]_vars

\* The age of the row r at the present time.
Age(r) == now - r.created_at

SweepCompletes ==
    /\ spc' = "idle"
    /\ spc # "idle" \/ sweep_result' # sweep_result
    /\ ~(spc = "cleanup" /\ faults' # faults)

\* C20: when an invocation of the stale processor returns, no row older
\* than max_age_minutes is left in the table, whether the release pass
\* found stale groups, found none, or failed.
C20_ExpiryBound ==
    [][SweepCompletes
          => \A k \in DOMAIN store' :
                 now' - store'[k].created_at <= 60 * max_age_minutes
      ]_vars

\* C21: every row of the table holds at least one message, whatever insert,
\* append, release, sweep or cleanup has run.
C21_NonEmptyGroups ==
    \A k \in DOMAIN store : Len(store[k].messages) >= 1

C21_Witness ==
    /\ \E k \in DOMAIN store : store[k].messages = <<1, 2>>
    /\ pc[2] = "delete"
    /\ spc = "loop"

\* C22: while a row exists, no step changes its created_at or its
\* phone_number (its group_key is the key it is stored under).
C22_CreatedAtImmutable ==
    [][\A k \in DOMAIN store \cap DOMAIN store' :
          /\ store'[k].created_at = store[k].created_at
          /\ store'[k].phone_number = store[k].phone_number
      ]_vars

C22_Witness ==
    \E k \in DOMAIN store :
        /\ store[k].messages = <<1, 2>>
        /\ store[k].created_at < now
        /\ item[2].created_at = store[k].created_at
        /\ pc[2] = "delete"

\* C23: two calls compute the same group key exactly when they have the same
\* phone number and the same time bucket floor(t / window), whatever else
\* the messages carry.
C23_KeyDeterministic ==
    Len(key_out) = 2 =>
        ((key_out[1] = key_out[2])
           <=> /\ key_args[1].phone_number = key_args[2].phone_number
               /\ key_args[1].current_time \div time_window
                    = key_args[2].current_time \div time_window)

C23_Witness ==
    /\ Len(key_out) = 2
    /\ key_out[1] = key_out[2]
    /\ key_out[1] = <<"7", "1", "#", "1", "0">>
    /\ key_args[1].current_time # key_args[2].current_time
    /\ key_args[1].num_media # key_args[2].num_media

\* C24: a media message ingested less than 10 seconds after the message that
\* created a row of the same phone number is assigned that row's group key.
C24_WithinWindow ==
    [][\A g \in Frags :
          (pc[g] = "new" /\ pc'[g] # "new" /\ ShouldAggregate(frag'[g])) =>
              \A k \in DOMAIN store :
                  (/\ store[k].phone_number = frag'[g].phone_number
                   /\ now - store[k].created_at < time_window)
                      => group_key'[g] = k
      ]_vars

\* C25: an invocation whose body could not be decoded never has its message
\* accepted by sns.publish or stored in a row, and answers with an error.
C25_MalformedRejected ==
    \A f \in Frags :
        decode_error[f] # None =>
            /\ published[f] # "accepted"
            /\ \A k \in DOMAIN store :
                  \A i \in 1..Len(store[k].messages) : store[k].messages[i] # f
            /\ pc[f] = "done" => response[f].statusCode >= 400

\* C26: a step of a webhook invocation that removes a row is the step in
\* which that invocation returns RELEASED with the merge of the messages
\* the row held; an invocation that is held removes nothing.
C26_DeleteOnlyOnRelease ==
    [][\A f \in Frags :
          pc'[f] # pc[f] =>
              \A k \in DOMAIN store \ DOMAIN store' :
                  /\ outcome'[f] = "RELEASED"
                  /\ message_to_send'[f] = MergeMessages(store[k].messages, k)
      ]_vars

\* C27: when a run of the stale processor has returned, the processed and
\* failed counts of its response add up to the number of stale groups the
\* run removed from the table.
C27_SweepCounts ==
    (spc = "idle" /\ sweep_result # NoResult) =>
        sweep_result.processed + sweep_result.failed = Cardinality(removed)

\* The message_id attributes the sns.publish calls have carried so far.
IdsSoFar == {message_ids[i].message_id : i \in 1..Len(message_ids)}

\* C28: every sns.publish call, of a webhook invocation on any path or of
\* the stale processor, accepted or not, attaches one message_id, and it is
\* one that no earlier call carried.
C28_FreshMessageId ==
    [][(\/ \E f \in Frags : published'[f] # published[f]
        \/ processed_count' = processed_count + 1
        \/ failed_count' = failed_count + 1)
          => /\ Len(message_ids') = Len(message_ids) + 1
             /\ message_ids'[Len(message_ids')].message_id \notin IdsSoFar
      ]_vars

C28_Witness ==
    /\ Len(message_ids) = 2
    /\ outcome[2] = "FAIL_OPEN"
    /\ published[2] = "accepted"
    /\ message_ids[1].caller = 2
    /\ message_ids[2].caller = 0
    /\ sweep_sent # <<>>

C30_FragmentAtMostOnce ==
    \A f \in Frags :
        Cardinality(CarriedByIngest(f)) + Cardinality(CarriedBySweep(f)) <= 1

\* C31: when process_stale_messages returns, the list it hands to the handler
\* holds the merged message of every row its deletes removed in that run,
\* also when the call on a later row failed.
C31_DeletedReturned ==
    [][(spc = "loop" /\ spc' # "loop") =>
          \A k \in removed' :
              \E i \in 1..Len(stale_messages') :
                  stale_messages'[i].group_key = k
      ]_vars

\* C32: an invocation whose insert met a duplicate key and whose read then
\* finds no row goes on to publish its own message alone, leaves the table
\* as it is, and, once sns.publish has accepted the message, answers with
\* the empty 200 response.
C32_VanishedAfterConflict ==
    [][\A f \in Frags :
          /\ (/\ pc[f] = "select"
              /\ pc'[f] # "select"
              /\ faults' = faults
              /\ group_key[f] \notin DOMAIN store)
                => /\ store' = store
                   /\ pc'[f] = "publish"
                   /\ message_to_send'[f].kind = "single"
                   /\ message_to_send'[f].messages = <<f>>
          /\ (/\ pc[f] = "publish"
              /\ outcome[f] = "NOT_FOUND"
              /\ published'[f] = "accepted")
                => /\ store' = store
                   /\ response'[f] = [statusCode |-> 200, body |-> ""]
      ]_vars

C32_Witness ==
    \E f \in Frags :
        /\ outcome[f] = "NOT_FOUND"
        /\ published[f] = "accepted"
        /\ pc[f] = "done"
        /\ \A k \in DOMAIN store : f \notin SeqToSet(store[k].messages)

\* C33: the cleanup of expired groups, which runs only after the pass over
\* the stale rows came back with its list, removes no row that holds a
\* message sns.publish has not accepted.
C33_PurgeLosesNothing ==
    [][(spc = "cleanup" /\ spc' = "idle") =>
          \A k \in DOMAIN store \ DOMAIN store' :
              \A i \in 1..Len(store[k].messages) :
                  Dispatched(store[k].messages[i])
      ]_vars

C33_Witness ==
    /\ spc = "idle"
    /\ sweep_result.message = "Processed stale messages"
    /\ faults = 0
    /\ \E k \in removed : /\ k \notin DOMAIN store
                          /\ k[2] + time_window <= now - 60 * max_age_minutes
    /\ \E k \in DOMAIN store : store[k].created_at > now - max_age_seconds

\* C34: every message sns.publish accepted, from a webhook invocation on
\* any path or from the stale processor, carries at most MAX_MEDIA media
\* items.
C34_MediaCap ==
    /\ \A f \in Frags :
          Accepted(f) => Len(MediaOf(message_to_send[f], frag)) <= MAX_MEDIA
    /\ \A i \in 1..Len(sweep_sent) :
          Len(MediaOf(sweep_sent[i], frag)) <= MAX_MEDIA

\* C35: a step of a webhook invocation leaves every row whose key is not the
\* invocation's group_key as it was: it neither creates, changes nor
\* removes it.
C35_IngestFrame ==
    [][\A f \in Frags :
          pc'[f] # pc[f] =>
              \A k \in (DOMAIN store \cup DOMAIN store') \ {group_key'[f]} :
                  /\ k \in DOMAIN store
                  /\ k \in DOMAIN store'
                  /\ store'[k] = store[k]
      ]_vars

C35_Witness ==
    /\ outcome[3] = "RELEASED"
    /\ group_key[3] = <<"p1", 0>>
    /\ DOMAIN store = {<<"p2", 0>>}

\* C36: the message_count column of every row equals the length of its
\* messages list, after the insert and after every append.
C36_CountConsistent ==
    \A k \in DOMAIN store : store[k].message_count = Len(store[k].messages)

C36_Witness ==
    \E k \in DOMAIN store :
        /\ store[k].message_count = 3
        /\ pc[2] = "delete"
        /\ pc[3] = "delete"

====
